---- MODULE Spec2Model ----
(***************************************************************************)
(* Event lifecycle and session orchestration of the interactive-broadcast  *)
(* API (the event service, part_001) over an asynchronous document store.  *)
(*                                                                         *)
(* A store write is issued by the service and applied by the store at some *)
(* later moment (ApplyWrite); a write that the code awaits blocks the      *)
(* caller until it has been applied, a write that the code does not await  *)
(* stays in flight while the caller goes on.  A read returns the store's   *)
(* content at the moment it is served.                                     *)
(*                                                                         *)
(* Requests are served one at a time; the writes a request left in flight  *)
(* outlive it.  Spec follows one event through create, update and          *)
(* changeStatus; SpecCreate follows several events through create and      *)
(* update of their slugs; SpecStatus follows changeStatus on one event     *)
(* that create has stored; SpecQuery runs the queries over stores of       *)
(* events that create has stored, SpecList the public listing of an        *)
(* admin, SpecToken the token operations and stopArchive; SpecArchive      *)
(* follows startArchive and stopArchive on one event; SpecDelete runs      *)
(* deleteEventsByAdminId; SpecAdmin follows createUser and deleteUser of   *)
(* the admin service (part_002) with the identity provider.                *)
(*                                                                         *)
(* Encoding of JavaScript values: an object is a function from its keys to *)
(* their values; a missing key is a key outside the DOMAIN; null is the    *)
(* string JSNull; booleans of event fields are the strings "true" and      *)
(* "false"; timestamps and ids are integers, the server-timestamp          *)
(* placeholder TS being 0 and real times starting at 1.                    *)
(***************************************************************************)
EXTENDS Integers, Sequences, FiniteSets, TLC

VARIABLES
    events,       \* db.ref('events'): event id -> stored record
    admins,       \* db.ref('admins'): the ids that have an admin record
    pending,      \* store writes issued and not yet applied, in issue order
    clock,        \* the store's server time
    nextId,       \* next key db.ref('events').push() hands out
    nextSession,  \* next session id OpenTok.createSession hands out
    users,        \* admin.auth(): the uids the identity provider holds
    nextArchive,  \* next archive id OpenTok.startArchive hands out
    pc,           \* position of the request being served
    call,         \* the operation being served and its arguments
    local,        \* its local variables
    ret,          \* its return value
    everLive,     \* history: ids whose stored status has been LIVE
    everClosed,   \* history: ids whose stored status has been CLOSED
    flow          \* history: per id, progress of create -> live -> closed

vars == <<events, admins, users, nextArchive, pending, clock, nextId, nextSession, pc, call,
          local, ret, everLive, everClosed, flow>>

(* ------------------------------ bounds --------------------------------- *)
\* events created in SpecCreate, events held in SpecQuery
MaxEvents == 2
\* events created in Spec
MaxTracked == 1
\* last server time
MaxClock == 2
\* store writes in flight at a time
MaxPending == 2
\* archives the gateway starts
MaxArchives == 2

(* --------------------------- dbProperties ------------------------------ *)
NOT_STARTED == "notStarted"
PRESHOW == "preshow"
LIVE == "live"
CLOSED == "closed"
eventStatuses == {NOT_STARTED, PRESHOW, LIVE, CLOSED}
TS == 0
JSNull == "null"
eventProps == {"id", "adminId", "name", "fanUrl", "hostUrl", "celebrityUrl",
               "sessionId", "stageSessionId", "status", "archiveEvent",
               "composed", "archiveId", "rtmpUrl", "createdAt", "updatedAt",
               "showStartedAt", "showEndedAt"}
timestampCreate == [createdAt |-> TS, updatedAt |-> TS]
timestampUpdate == [updatedAt |-> TS]
TimeProps == {"createdAt", "updatedAt", "showStartedAt", "showEndedAt"}

(* ------------------------------ ramda ---------------------------------- *)
None == [none |-> TRUE]
EmptyObject == [k \in {} |-> TS]
Has(obj, k) == k \in DOMAIN obj
pick(props, obj) == [k \in (DOMAIN obj) \cap props |-> obj[k]]
merge(l, r) == [k \in (DOMAIN l) \cup (DOMAIN r) |-> IF k \in DOMAIN r THEN r[k] ELSE l[k]]
defaultTo(d, v) == IF v = JSNull THEN d ELSE v

(* ------------------------- part_001, private --------------------------- *)
setDefaults(eventData) ==
    [k \in DOMAIN eventData |->
        IF k = "status" THEN defaultTo(NOT_STARTED, eventData[k])
        ELSE IF k \in {"archiveEvent", "composed"} THEN defaultTo("false", eventData[k])
        ELSE eventData[k]]

buildEvent(props, eventData) == setDefaults(pick(props, eventData))

buildOtData(userType) == [userType |-> userType]

\* Object.values(snapshot.val()): the records of the ids in S, in key order
RECURSIVE values(_, _)
values(evs, S) ==
    IF S = {} THEN <<>>
    ELSE LET k == CHOOSE i \in S : \A j \in S : i <= j
         IN <<evs[k]>> \o values(evs, S \ {k})

\* R.ascend(R.prop('createdAt')): -1, 0 or 1; a missing createdAt compares
\* neither smaller nor larger
ascendCreatedAt(a, b) ==
    IF ~Has(a, "createdAt") \/ ~Has(b, "createdAt") THEN 0
    ELSE IF a.createdAt < b.createdAt THEN -1
    ELSE IF a.createdAt > b.createdAt THEN 1
    ELSE 0

\* stable insertion of e into the sorted list
RECURSIVE insertSorted(_, _)
insertSorted(e, list) ==
    IF list = <<>> THEN <<e>>
    ELSE IF ascendCreatedAt(e, Head(list)) < 0 THEN <<e>> \o list
    ELSE <<Head(list)>> \o insertSorted(e, Tail(list))

RECURSIVE sortFrom(_, _)
sortFrom(list, acc) ==
    IF list = <<>> THEN acc ELSE sortFrom(Tail(list), insertSorted(Head(list), acc))

sortByCreatedAt(list) == sortFrom(list, <<>>)

\* R.find(R.propEq(prop, value)): the first element whose prop equals value
RECURSIVE findPropEq(_, _, _)
findPropEq(prop, value, list) ==
    IF list = <<>> THEN None
    ELSE IF Has(Head(list), prop) /\ Head(list)[prop] = value THEN Head(list)
    ELSE findPropEq(prop, value, Tail(list))

filterByStatus(status, list) == findPropEq("status", status, list)

(* --------------------------- document store ---------------------------- *)
\* orderByChild(field).equalTo(value): the keys of the matching records
queryKeys(evs, field, value) ==
    {i \in DOMAIN evs : Has(evs[i], field) /\ evs[i][field] = value}

\* ref.child(id).once('value').val()
childVal(evs, id) == IF id \in DOMAIN evs THEN evs[id] ELSE None

\* the store replaces the ServerValue.TIMESTAMP placeholder by its own time
resolveTS(data, now) ==
    [k \in DOMAIN data |-> IF k \in TimeProps /\ data[k] = TS THEN now ELSE data[k]]

put(evs, id, record) ==
    [i \in (DOMAIN evs) \cup {id} |-> IF i = id THEN record ELSE evs[i]]

\* ref.set(data) replaces the record, ref.update(data) merges into it (and
\* creates it when there is none)
applyWrite(evs, w, now) ==
    IF w.kind = "set" THEN put(evs, w.id, resolveTS(w.data, now))
    ELSE IF w.kind = "updates" THEN [i \in (DOMAIN evs) \ w.ids |-> evs[i]]
    ELSE put(evs, w.id, merge(IF w.id \in DOMAIN evs THEN evs[w.id] ELSE EmptyObject,
                              resolveTS(w.data, now)))

removeAt(list, i) == SubSeq(list, 1, i - 1) \o SubSeq(list, i + 1, Len(list))

awaitedDone == \A i \in 1..Len(pending) : ~pending[i].awaited

statusAfter(evs, id) ==
    IF id \in DOMAIN evs /\ Has(evs[id], "status") THEN {evs[id].status} ELSE {}

ApplyWrite(i) ==
    /\ i \in 1..Len(pending)
    /\ events' = applyWrite(events, pending[i], clock)
    /\ pending' = removeAt(pending, i)
    /\ everLive' = everLive \cup (IF LIVE \in statusAfter(events', pending[i].id) THEN {pending[i].id} ELSE {})
    /\ everClosed' = everClosed \cup (IF CLOSED \in statusAfter(events', pending[i].id) THEN {pending[i].id} ELSE {})
    /\ UNCHANGED <<admins, users, nextArchive, clock, nextId, nextSession, pc, call, local, ret, flow>>

Tick ==
    /\ clock < MaxClock
    /\ clock' = clock + 1
    /\ UNCHANGED <<events, admins, users, nextArchive, pending, nextId, nextSession, pc, call, local, ret,
                   everLive, everClosed, flow>>

(* ------------------------------ inputs --------------------------------- *)
AdminIds == {"a1", "a2"}
RegisteredAdmins == {"a1"}
Slugs == {"alpha", "beta"}
UserFields == {"fanUrl", "hostUrl", "celebrityUrl"}
ForeignSession == 0

EventData(adminId, slug) ==
    [adminId |-> adminId, name |-> "show", fanUrl |-> slug,
     hostUrl |-> slug \o "-host", celebrityUrl |-> slug \o "-celebrity"]

CreateData ==
    {EventData(a, s) : a \in AdminIds, s \in Slugs}
        \cup {merge(EventData("a1", "beta"), [status |-> LIVE, bogus |-> "x"])}

UpdateData ==
    {[status |-> LIVE], [status |-> CLOSED], [status |-> JSNull], [bogus |-> "x"],
     [showStartedAt |-> TS],
     [sessionId |-> ForeignSession, stageSessionId |-> ForeignSession]}

UpdateSlugData == {[fanUrl |-> s] : s \in Slugs}

ChangeStatusData == {[status |-> s] : s \in eventStatuses}

(* ------------------------------ requests ------------------------------- *)
NoCall == [op |-> "none"]
KnownIds == 1..(nextId - 1)

Issue(w) ==
    /\ Len(pending) < MaxPending
    /\ pending' = Append(pending, w)

\* the Error that getSessions returns: it has no enumerable own property
sessionsError == EmptyObject

\* saveEvent, up to its await: a fresh key and the set of the built record
saveEventWrite(id, data) ==
    [kind |-> "set", id |-> id, awaited |-> TRUE, by |-> "saveEvent",
     data |-> buildEvent(eventProps, merge(merge(timestampCreate, [id |-> id]), data))]

\* update, up to its await: the update of the built payload
updateWrite(id, data, awaited, by) ==
    [kind |-> "update", id |-> id, awaited |-> awaited, by |-> by,
     data |-> buildEvent(eventProps, merge(timestampUpdate, data))]

\* create, after getSessions: R.mergeAll([defaultValues, data, sessions])
createData(data, sessions) ==
    merge(merge([status |-> NOT_STARTED, rtmpUrl |-> ""], data), sessions)

\* (mutant) both timestamps are stamped on LIVE and on CLOSED
statusDataBoth(data) ==
    IF data.status \in {LIVE, CLOSED}
    THEN merge(data, [showStartedAt |-> TS, showEndedAt |-> TS])
    ELSE data

\* changeStatus: the payload with the lifecycle timestamp
statusData(data) ==
    IF data.status = LIVE THEN merge(data, [showStartedAt |-> TS])
    ELSE IF data.status = CLOSED THEN merge(data, [showEndedAt |-> TS])
    ELSE data

\* create continues into saveEvent with the sessions it got
\* (error: what getSessions caught, "none" when it caught nothing)
SaveEvent(sessions, error) ==
    /\ Issue(saveEventWrite(nextId, createData(call.data, sessions)))
    /\ nextId' = nextId + 1
    /\ local' = [id |-> nextId, sessions |-> sessions, error |-> error]
    /\ pc' = "saveEvent_set"

create(data, limit) ==
    /\ pc = "idle"
    /\ nextId <= limit
    /\ pc' = "create_getAdmin"
    /\ call' = [op |-> "create", data |-> data]
    /\ UNCHANGED <<events, admins, users, nextArchive, pending, clock, nextId, nextSession, local, ret,
                   everLive, everClosed, flow>>

\* Admin.getAdmin resolves; getSessions starts
create_getAdmin ==
    /\ pc = "create_getAdmin"
    /\ IF call.data.adminId \in admins
       THEN /\ pc' = "getSessions_session"
            /\ local' = [admin |-> call.data.adminId]
            /\ UNCHANGED <<pending, nextId>>
       ELSE SaveEvent(sessionsError, "TypeError")
    /\ UNCHANGED <<events, admins, users, nextArchive, clock, nextSession, call, ret, everLive, everClosed, flow>>

\* the first OpenTok.createSession resolves or rejects
getSessions_session(ok) ==
    /\ pc = "getSessions_session"
    /\ IF ok
       THEN /\ pc' = "getSessions_stageSession"
            /\ local' = [admin |-> local.admin, sessionId |-> nextSession]
            /\ nextSession' = nextSession + 1
            /\ UNCHANGED <<pending, nextId>>
       ELSE /\ SaveEvent(sessionsError, "createSession")
            /\ UNCHANGED nextSession
    /\ UNCHANGED <<events, admins, users, nextArchive, clock, call, ret, everLive, everClosed, flow>>

\* the second OpenTok.createSession resolves or rejects
getSessions_stageSession(ok) ==
    /\ pc = "getSessions_stageSession"
    /\ IF ok
       THEN /\ SaveEvent([sessionId |-> local.sessionId, stageSessionId |-> nextSession], "none")
            /\ nextSession' = nextSession + 1
       ELSE /\ SaveEvent(sessionsError, "createSession")
            /\ UNCHANGED nextSession
    /\ UNCHANGED <<events, admins, users, nextArchive, clock, call, ret, everLive, everClosed, flow>>

\* the awaited set has been applied; getEvent(id) is issued
saveEvent_set ==
    /\ pc = "saveEvent_set"
    /\ awaitedDone
    /\ pc' = "saveEvent_getEvent"
    /\ UNCHANGED <<events, admins, users, nextArchive, pending, clock, nextId, nextSession, call, local, ret,
                   everLive, everClosed, flow>>

saveEvent_getEvent ==
    /\ pc = "saveEvent_getEvent"
    /\ ret' = childVal(events, local.id)
    /\ pc' = "done"
    /\ flow' = [flow EXCEPT ![local.id] = "created"]
    /\ UNCHANGED <<events, admins, users, nextArchive, pending, clock, nextId, nextSession, call, local,
                   everLive, everClosed>>

update(id, data) ==
    /\ pc = "idle"
    /\ Issue(updateWrite(id, data, TRUE, "update"))
    /\ pc' = "update_update"
    /\ call' = [op |-> "update", id |-> id, data |-> data]
    /\ flow' = [flow EXCEPT ![id] = "other"]
    /\ UNCHANGED <<events, admins, users, nextArchive, clock, nextId, nextSession, local, ret,
                   everLive, everClosed>>

update_update ==
    /\ pc = "update_update"
    /\ awaitedDone
    /\ pc' = "update_getEvent"
    /\ UNCHANGED <<events, admins, users, nextArchive, pending, clock, nextId, nextSession, call, local, ret,
                   everLive, everClosed, flow>>

update_getEvent ==
    /\ pc = "update_getEvent"
    /\ ret' = childVal(events, call.id)
    /\ pc' = "done"
    /\ UNCHANGED <<events, admins, users, nextArchive, pending, clock, nextId, nextSession, call, local,
                   everLive, everClosed, flow>>

\* changeStatus calls update without awaiting it, then reads
changeStatus(id, data) ==
    /\ pc = "idle"
    /\ Issue(updateWrite(id, statusData(data), FALSE, "changeStatus"))
    /\ pc' = "changeStatus_getEvent"
    /\ call' = [op |-> "changeStatus", id |-> id, data |-> data]
    /\ local' = [existed |-> id \in DOMAIN events]
    /\ flow' = [flow EXCEPT ![id] =
                   IF data.status = LIVE /\ flow[id] = "created" THEN "liveCalled"
                   ELSE IF data.status = CLOSED /\ flow[id] = "liveReturned" THEN "closedCalled"
                   ELSE "other"]
    /\ UNCHANGED <<events, admins, users, nextArchive, clock, nextId, nextSession, ret, everLive, everClosed>>

changeStatus_getEvent ==
    /\ pc = "changeStatus_getEvent"
    /\ ret' = childVal(events, call.id)
    /\ pc' = "done"
    /\ flow' = [flow EXCEPT ![call.id] =
                   IF flow[call.id] = "liveCalled" THEN "liveReturned" ELSE flow[call.id]]
    /\ UNCHANGED <<events, admins, users, nextArchive, pending, clock, nextId, nextSession, call, local,
                   everLive, everClosed>>

\* (mutant) the first event with the slug, whoever owns it
eventByKeyAnyAdmin(evs, adminId, slug, field) ==
    IF queryKeys(evs, field, slug) # {}
    THEN Head(values(evs, queryKeys(evs, field, slug)))
    ELSE None

\* getEventByKey, after its query: R.find(R.propEq('adminId', adminId))
eventByKey(evs, adminId, slug, field) ==
    IF queryKeys(evs, field, slug) # {}
    THEN findPropEq("adminId", adminId, values(evs, queryKeys(evs, field, slug)))
    ELSE None

getEventByKey(adminId, slug, field) ==
    /\ pc = "idle"
    /\ pc' = "getEventByKey_query"
    /\ call' = [op |-> "getEventByKey", adminId |-> adminId, slug |-> slug, field |-> field]
    /\ UNCHANGED <<events, admins, users, nextArchive, pending, clock, nextId, nextSession, local, ret,
                   everLive, everClosed, flow>>

getEventByKey_query ==
    /\ pc = "getEventByKey_query"
    /\ ret' = eventByKey(events, call.adminId, call.slug, call.field)
    /\ pc' = "done"
    /\ UNCHANGED <<events, admins, users, nextArchive, pending, clock, nextId, nextSession, call, local,
                   everLive, everClosed, flow>>

\* (mutant) the events are searched in key order, unsorted
mostRecentEventUnsorted(evs, adminId) ==
    IF queryKeys(evs, "adminId", adminId) # {}
    THEN LET list == values(evs, queryKeys(evs, "adminId", adminId))
         IN IF filterByStatus(LIVE, list) # None THEN filterByStatus(LIVE, list)
            ELSE filterByStatus(PRESHOW, list)
    ELSE None

\* getMostRecentEvent, after getEvents
mostRecentEvent(evs, adminId) ==
    IF queryKeys(evs, "adminId", adminId) # {}
    THEN LET sorted == sortByCreatedAt(values(evs, queryKeys(evs, "adminId", adminId)))
         IN IF filterByStatus(LIVE, sorted) # None THEN filterByStatus(LIVE, sorted)
            ELSE filterByStatus(PRESHOW, sorted)
    ELSE None

getMostRecentEvent(adminId) ==
    /\ pc = "idle"
    /\ pc' = "getMostRecentEvent_getEvents"
    /\ call' = [op |-> "getMostRecentEvent", adminId |-> adminId]
    /\ UNCHANGED <<events, admins, users, nextArchive, pending, clock, nextId, nextSession, local, ret,
                   everLive, everClosed, flow>>

getMostRecentEvent_getEvents ==
    /\ pc = "getMostRecentEvent_getEvents"
    /\ ret' = mostRecentEvent(events, call.adminId)
    /\ pc' = "done"
    /\ UNCHANGED <<events, admins, users, nextArchive, pending, clock, nextId, nextSession, call, local,
                   everLive, everClosed, flow>>

\* the caller has its result; the next request may start
Return ==
    /\ pc \in {"done", "failed"}
    /\ pc' = "idle"
    /\ call' = NoCall
    /\ local' = EmptyObject
    /\ ret' = None
    /\ UNCHANGED <<events, admins, users, nextArchive, pending, clock, nextId, nextSession,
                   everLive, everClosed, flow>>

(* --------------------------- specification ----------------------------- *)
Init ==
    /\ events = [i \in {} |-> EmptyObject]
    /\ admins = RegisteredAdmins
    /\ users = RegisteredAdmins
    /\ nextArchive = 1
    /\ pending = <<>>
    /\ clock = 1
    /\ nextId = 1
    /\ nextSession = 1
    /\ pc = "idle"
    /\ call = NoCall
    /\ local = EmptyObject
    /\ ret = None
    /\ everLive = {}
    /\ everClosed = {}
    /\ flow = [i \in 1..(MaxEvents + MaxTracked) |-> "none"]

Next ==
    \/ \E data \in CreateData : create(data, MaxTracked)
    \/ create_getAdmin
    \/ \E ok \in BOOLEAN : getSessions_session(ok)
    \/ \E ok \in BOOLEAN : getSessions_stageSession(ok)
    \/ saveEvent_set
    \/ saveEvent_getEvent
    \/ \E id \in KnownIds, data \in UpdateData : update(id, data)
    \/ update_update
    \/ update_getEvent
    \/ \E id \in KnownIds, data \in ChangeStatusData : changeStatus(id, data)
    \/ changeStatus_getEvent
    \/ Return
    \/ \E i \in 1..Len(pending) : ApplyWrite(i)
    \/ Tick

Spec == Init /\ [][Next]_vars

\* creation and renaming of several events
NextCreate ==
    \/ \E data \in CreateData : create(data, MaxEvents)
    \/ create_getAdmin
    \/ \E ok \in BOOLEAN : getSessions_session(ok)
    \/ \E ok \in BOOLEAN : getSessions_stageSession(ok)
    \/ saveEvent_set
    \/ saveEvent_getEvent
    \/ \E id \in KnownIds, data \in UpdateSlugData : update(id, data)
    \/ update_update
    \/ update_getEvent
    \/ Return
    \/ \E i \in 1..Len(pending) : ApplyWrite(i)
    \/ Tick

SpecCreate == Init /\ [][NextCreate]_vars

\* status changes of one event that create has stored
StoredBy(id, data, sessions, now) ==
    resolveTS(saveEventWrite(id, createData(data, sessions)).data, now)

InitStatus ==
    /\ \E data \in CreateData, sessions \in {sessionsError, [sessionId |-> 1, stageSessionId |-> 2]} :
          /\ events = [i \in {1} |-> StoredBy(1, data, sessions, 1)]
          /\ everLive = (IF events[1].status = LIVE THEN {1} ELSE {})
    /\ admins = RegisteredAdmins
    /\ users = RegisteredAdmins
    /\ nextArchive = 1
    /\ pending = <<>>
    /\ clock = 1
    /\ nextId = 2
    /\ nextSession = 3
    /\ pc = "idle"
    /\ call = NoCall
    /\ local = EmptyObject
    /\ ret = None
    /\ everClosed = {}
    /\ flow = [i \in 1..(MaxEvents + MaxTracked) |-> IF i = 1 THEN "created" ELSE "none"]

NextStatus ==
    \/ \E id \in KnownIds, data \in ChangeStatusData : changeStatus(id, data)
    \/ changeStatus_getEvent
    \/ Return
    \/ \E i \in 1..Len(pending) : ApplyWrite(i)
    \/ Tick

SpecStatus == InitStatus /\ [][NextStatus]_vars

\* queries over stores of events that create has stored
slugOf(slug, field) ==
    IF field = "fanUrl" THEN slug
    ELSE IF field = "hostUrl" THEN slug \o "-host"
    ELSE slug \o "-celebrity"

StoredEvents(id) ==
    {StoredBy(id, merge(EventData(a, s), [status |-> st]),
              [sessionId |-> 2 * id - 1, stageSessionId |-> 2 * id], t) :
        a \in AdminIds, s \in Slugs, st \in eventStatuses, t \in 1..MaxClock}

InitQuery ==
    /\ \E n \in 0..MaxEvents :
          /\ events \in [1..n -> UNION {StoredEvents(i) : i \in 1..n}]
          /\ \A i \in 1..n : events[i].id = i
          /\ nextId = n + 1
          /\ nextSession = 2 * n + 1
    /\ admins = RegisteredAdmins
    /\ users = RegisteredAdmins
    /\ nextArchive = 1
    /\ pending = <<>>
    /\ clock = MaxClock
    /\ pc = "idle"
    /\ call = NoCall
    /\ local = EmptyObject
    /\ ret = None
    /\ everLive = {i \in DOMAIN events : events[i].status = LIVE}
    /\ everClosed = {i \in DOMAIN events : events[i].status = CLOSED}
    /\ flow = [i \in 1..(MaxEvents + MaxTracked) |-> "other"]

NextQuery ==
    \/ \E a \in AdminIds, s \in Slugs, f \in UserFields : getEventByKey(a, slugOf(s, f), f)
    \/ getEventByKey_query
    \/ \E a \in AdminIds : getMostRecentEvent(a)
    \/ getMostRecentEvent_getEvents
    \/ Return

SpecQuery == InitQuery /\ [][NextQuery]_vars

(* ------------------------------ claims --------------------------------- *)
sameProp(old, new, k) ==
    /\ Has(old, k) <=> Has(new, k)
    /\ Has(old, k) => old[k] = new[k]

writesFor(id) == {i \in 1..Len(pending) : pending[i].id = id}

\* C1: the record changeStatus returns for an existing event already has the
\* requested status, with showStartedAt set for LIVE and showEndedAt set for
\* CLOSED
C1_ReturnsRefreshed ==
    (pc = "done" /\ call.op = "changeStatus" /\ local.existed) =>
        /\ ret # None
        /\ ret.status = call.data.status
        /\ call.data.status = LIVE => Has(ret, "showStartedAt")
        /\ call.data.status = CLOSED => Has(ret, "showEndedAt")

\* C2: after create, changeStatus to live has returned and changeStatus to
\* closed was called: once no write to the event is in flight, the stored
\* record is closed and has both show timestamps
C2_LiveThenClosed ==
    \A id \in DOMAIN events :
        (flow[id] = "closedCalled" /\ writesFor(id) = {}) =>
            /\ events[id].status = CLOSED
            /\ Has(events[id], "showStartedAt")
            /\ Has(events[id], "showEndedAt")

\* C3: the write of changeStatus to LIVE sets showStartedAt and leaves
\* showEndedAt as stored; the write of changeStatus to CLOSED sets showEndedAt
\* and leaves showStartedAt as stored; the write of changeStatus to any other
\* status leaves both as stored
C3_StatusTimestamps ==
    [][\A i \in 1..Len(pending) :
          (ApplyWrite(i) /\ pending[i].by = "changeStatus" /\ pending[i].id \in DOMAIN events) =>
              LET old == events[pending[i].id]
                  new == events'[pending[i].id]
                  status == pending[i].data.status
              IN  /\ new.status = status
                  /\ status = LIVE =>
                        /\ Has(new, "showStartedAt") /\ new.showStartedAt = clock
                        /\ sameProp(old, new, "showEndedAt")
                  /\ status = CLOSED =>
                        /\ Has(new, "showEndedAt") /\ new.showEndedAt = clock
                        /\ sameProp(old, new, "showStartedAt")
                  /\ status \notin {LIVE, CLOSED} =>
                        /\ sameProp(old, new, "showStartedAt")
                        /\ sameProp(old, new, "showEndedAt")]_vars

\* C3 witness: an event that went live at time 1 has been closed at time 2
C3_Witness ==
    /\ 1 \in DOMAIN events
    /\ events[1].status = CLOSED
    /\ Has(events[1], "showStartedAt") /\ events[1].showStartedAt = 1
    /\ Has(events[1], "showEndedAt") /\ events[1].showEndedAt = 2

\* C4: a stored event has showStartedAt iff its status has been LIVE, and
\* showEndedAt iff its status has been CLOSED
C4_TimestampsIffReached ==
    \A id \in DOMAIN events :
        /\ Has(events[id], "showStartedAt") <=> id \in everLive
        /\ Has(events[id], "showEndedAt") <=> id \in everClosed

\* C5: the sessionId and stageSessionId of a stored event never change
C5_SessionsImmutable ==
    [][\A id \in DOMAIN events :
          /\ sameProp(events[id], events'[id], "sessionId")
          /\ sameProp(events[id], events'[id], "stageSessionId")]_vars

\* C6: every record create persists has a sessionId and a stageSessionId, and
\* they differ
C6_TwoSessions ==
    \A id \in DOMAIN events :
        /\ Has(events[id], "sessionId")
        /\ Has(events[id], "stageSessionId")
        /\ events[id].sessionId # events[id].stageSessionId

\* C7: when a gateway createSession call has failed, create goes no further:
\* it issues no write of an event record
C7_FailureAborts ==
    (call.op = "create" /\ pc \in {"saveEvent_set", "saveEvent_getEvent", "done"}) =>
        local.error # "createSession"

\* C8: no two events of one admin share a fanUrl, a hostUrl or a celebrityUrl
C8_SlugsUnique ==
    \A i, j \in DOMAIN events :
        (i # j /\ Has(events[i], "adminId") /\ Has(events[j], "adminId")
              /\ events[i].adminId = events[j].adminId) =>
            \A f \in UserFields :
                (Has(events[i], f) /\ Has(events[j], f)) => events[i][f] # events[j][f]

ownedWith(adminId, slug, field) ==
    {i \in DOMAIN events :
        /\ Has(events[i], "adminId") /\ events[i].adminId = adminId
        /\ Has(events[i], field) /\ events[i][field] = slug}

\* C9: getEventByKey returns only an event of adminId whose field equals slug,
\* and returns one whenever the store has one
C9_ByKey ==
    [][(pc = "getEventByKey_query" /\ pc' = "done") =>
          /\ ret' # None =>
                \E i \in ownedWith(call.adminId, call.slug, call.field) : ret' = events[i]
          /\ ownedWith(call.adminId, call.slug, call.field) # {} => ret' # None]_vars

\* C9 witness: the admin's event was returned although another admin's event
\* with the same slug comes first in the store
C9_Witness ==
    /\ pc = "done" /\ call.op = "getEventByKey" /\ ret # None
    /\ \E i \in DOMAIN events :
          /\ i < ret.id
          /\ events[i].adminId # call.adminId
          /\ events[i][call.field] = call.slug

ownedIn(adminId, status) ==
    {events[i] : i \in {j \in DOMAIN events :
        /\ Has(events[j], "adminId") /\ events[j].adminId = adminId
        /\ Has(events[j], "status") /\ events[j].status = status}}

earliestOf(S, e) == e \in S /\ \A f \in S : e.createdAt <= f.createdAt

PublicPropsChoices ==
    {{"id", "adminId", "name", "fanUrl", "hostUrl", "celebrityUrl"} \cup extra :
        extra \in SUBSET {"status", "createdAt"}}

notClosed(event) == ~Has(event, "status") \/ event.status # CLOSED

pickProps(props, items) == [k \in 1..Len(items) |-> pick(props, items[k])]

\* getEventsByAdmin, after getEvents: the projection comes first, then the
\* sort and the filter
eventsByAdmin(evs, adminId, publicProps) ==
    IF queryKeys(evs, "adminId", adminId) # {}
    THEN SelectSeq(sortByCreatedAt(pickProps(publicProps,
                       values(evs, queryKeys(evs, "adminId", adminId)))),
                   notClosed)
    ELSE None

getEventsByAdmin(adminId, publicProps) ==
    /\ pc = "idle"
    /\ pc' = "getEventsByAdmin_getEvents"
    /\ call' = [op |-> "getEventsByAdmin", adminId |-> adminId, publicProps |-> publicProps]
    /\ UNCHANGED <<events, admins, users, nextArchive, pending, clock, nextId, nextSession,
                   local, ret, everLive, everClosed, flow>>

getEventsByAdmin_getEvents ==
    /\ pc = "getEventsByAdmin_getEvents"
    /\ ret' = eventsByAdmin(events, call.adminId, call.publicProps)
    /\ pc' = "done"
    /\ UNCHANGED <<events, admins, users, nextArchive, pending, clock, nextId, nextSession,
                   call, local, everLive, everClosed, flow>>

NextList ==
    \/ \E a \in AdminIds, props \in PublicPropsChoices : getEventsByAdmin(a, props)
    \/ getEventsByAdmin_getEvents
    \/ Return

SpecList == InitQuery /\ [][NextList]_vars

ownedOpen(adminId) ==
    {i \in DOMAIN events :
        /\ Has(events[i], "adminId") /\ events[i].adminId = adminId
        /\ events[i].status # CLOSED}

UserTypes == {"host", "celebrity", "fan"}
Undefined == [undefined |-> TRUE]
Failed(error) == [error |-> error]

\* Admin.getAdmin(uid): the admin record, None when there is none
getAdmin(uid) ==
    IF uid \in admins THEN [id |-> uid, otApiKey |-> uid, httpSupport |-> "false"] ELSE None

prop(obj, k) == IF Has(obj, k) THEN obj[k] ELSE Undefined

\* OpenTok.createToken(apiKey, secret, sessionId, options)
createToken(sessionId, role, userType) ==
    [sessionId |-> sessionId, role |-> role, data |-> buildOtData(userType)]

\* a token can be issued only for a session the platform knows
canIssue(event, key) == Has(event, key)

\* a field access on null or undefined throws
Throw(error) ==
    /\ pc' = "failed"
    /\ ret' = Failed(error)
    /\ UNCHANGED local

createTokenProducer(id) ==
    /\ pc = "idle"
    /\ pc' = "createTokenProducer_getEvent"
    /\ call' = [op |-> "createTokenProducer", id |-> id]
    /\ UNCHANGED <<events, admins, users, nextArchive, pending, clock, nextId, nextSession,
                   local, ret, everLive, everClosed, flow>>

createTokenProducer_getEvent ==
    /\ pc = "createTokenProducer_getEvent"
    /\ IF childVal(events, call.id) = None
       THEN Throw("TypeError")
       ELSE /\ pc' = "createTokenProducer_getAdmin"
            /\ local' = [event |-> childVal(events, call.id)]
            /\ UNCHANGED ret
    /\ UNCHANGED <<events, admins, users, nextArchive, pending, clock, nextId, nextSession,
                   call, everLive, everClosed, flow>>

createTokenProducer_getAdmin ==
    /\ pc = "createTokenProducer_getAdmin"
    /\ IF getAdmin(prop(local.event, "adminId")) = None
       THEN Throw("TypeError")
       ELSE /\ pc' = "createTokenProducer_backstageToken"
            /\ local' = [event |-> local.event, admin |-> getAdmin(local.event.adminId)]
            /\ UNCHANGED ret
    /\ UNCHANGED <<events, admins, users, nextArchive, pending, clock, nextId, nextSession,
                   call, everLive, everClosed, flow>>

createTokenProducer_backstageToken(ok) ==
    /\ pc = "createTokenProducer_backstageToken"
    /\ IF ok /\ canIssue(local.event, "sessionId")
       THEN /\ pc' = "createTokenProducer_stageToken"
            /\ local' = [event |-> local.event, admin |-> local.admin,
                         backstageToken |-> createToken(local.event.sessionId, "moderator", "producer")]
            /\ UNCHANGED ret
       ELSE Throw("createToken")
    /\ UNCHANGED <<events, admins, users, nextArchive, pending, clock, nextId, nextSession,
                   call, everLive, everClosed, flow>>

createTokenProducer_stageToken(ok) ==
    /\ pc = "createTokenProducer_stageToken"
    /\ IF ok /\ canIssue(local.event, "stageSessionId")
       THEN /\ pc' = "done"
            /\ ret' = [apiKey |-> local.admin.otApiKey, event |-> local.event,
                       backstageToken |-> local.backstageToken,
                       stageToken |-> createToken(local.event.stageSessionId, "moderator", "producer")]
            /\ UNCHANGED local
       ELSE Throw("createToken")
    /\ UNCHANGED <<events, admins, users, nextArchive, pending, clock, nextId, nextSession,
                   call, everLive, everClosed, flow>>

createTokenFan(adminId, slug) ==
    /\ pc = "idle"
    /\ pc' = "createTokenFan_getEventByKey"
    /\ call' = [op |-> "createTokenFan", adminId |-> adminId, slug |-> slug]
    /\ local' = [tokenCalls |-> 0, adminLookups |-> 0]
    /\ UNCHANGED <<events, admins, users, nextArchive, pending, clock, nextId, nextSession,
                   ret, everLive, everClosed, flow>>

\* event.adminId is read to call Admin.getAdmin
createTokenFan_getEventByKey ==
    /\ pc = "createTokenFan_getEventByKey"
    /\ IF eventByKey(events, call.adminId, call.slug, "fanUrl") = None
       THEN Throw("TypeError")
       ELSE /\ pc' = "createTokenFan_getAdmin"
            /\ local' = [event |-> eventByKey(events, call.adminId, call.slug, "fanUrl"),
                         tokenCalls |-> 0, adminLookups |-> 1]
            /\ UNCHANGED ret
    /\ UNCHANGED <<events, admins, users, nextArchive, pending, clock, nextId, nextSession,
                   call, everLive, everClosed, flow>>

\* what createTokenFan destructures from the call of createTokensFan
tokensFan(event) ==
    [backstageToken |-> Undefined, stageToken |-> Undefined]

\* the admin is destructured; createTokensFan is called and not awaited: its
\* first createToken call is made, the promise it returns is destructured
createTokenFan_getAdmin ==
    /\ pc = "createTokenFan_getAdmin"
    /\ IF getAdmin(prop(local.event, "adminId")) = None
       THEN Throw("TypeError")
       ELSE /\ pc' = "done"
            /\ ret' = [apiKey |-> getAdmin(local.event.adminId).otApiKey,
                       event |-> local.event,
                       backstageToken |-> tokensFan(local.event).backstageToken,
                       stageToken |-> tokensFan(local.event).stageToken,
                       httpSupport |-> getAdmin(local.event.adminId).httpSupport]
            /\ local' = [event |-> local.event, tokenCalls |-> 1, adminLookups |-> 1,
                         createTokensFan |-> "backstageToken"]
    /\ UNCHANGED <<events, admins, users, nextArchive, pending, clock, nextId, nextSession,
                   call, everLive, everClosed, flow>>

\* createTokensFan goes on by itself: its first createToken resolves or rejects
createTokensFan_backstageToken(ok) ==
    /\ pc = "done" /\ call.op = "createTokenFan"
    /\ local.createTokensFan = "backstageToken"
    /\ local' = IF ok /\ canIssue(local.event, "sessionId")
                THEN [local EXCEPT !.createTokensFan = "stageToken", !.tokenCalls = 2]
                ELSE [local EXCEPT !.createTokensFan = "rejected"]
    /\ UNCHANGED <<events, admins, users, nextArchive, pending, clock, nextId, nextSession,
                   pc, call, ret, everLive, everClosed, flow>>

createTokensFan_stageToken(ok) ==
    /\ pc = "done" /\ call.op = "createTokenFan"
    /\ local.createTokensFan = "stageToken"
    /\ local' = IF ok /\ canIssue(local.event, "stageSessionId")
                THEN [local EXCEPT !.createTokensFan = "resolved"]
                ELSE [local EXCEPT !.createTokensFan = "rejected"]
    /\ UNCHANGED <<events, admins, users, nextArchive, pending, clock, nextId, nextSession,
                   pc, call, ret, everLive, everClosed, flow>>

\* the field createTokenHostCeleb looks the slug up by
hostCelebField(userType) == IF userType = "host" THEN "hostUrl" ELSE "celebrityUrl"

createTokenHostCeleb(adminId, slug, userType) ==
    /\ pc = "idle"
    /\ pc' = "createTokenHostCeleb_getEventByKey"
    /\ call' = [op |-> "createTokenHostCeleb", adminId |-> adminId, userType |-> userType]
    /\ local' = [slug |-> slug]
    /\ UNCHANGED <<events, admins, users, nextArchive, pending, clock, nextId, nextSession,
                   ret, everLive, everClosed, flow>>

createTokenHostCeleb_getEventByKey ==
    /\ pc = "createTokenHostCeleb_getEventByKey"
    /\ IF eventByKey(events, call.adminId, local.slug, hostCelebField(call.userType)) = None
       THEN Throw("TypeError")
       ELSE /\ pc' = "createTokenHostCeleb_getAdmin"
            /\ local' = merge(local, [event |-> eventByKey(events, call.adminId, local.slug,
                                                            hostCelebField(call.userType))])
            /\ UNCHANGED ret
    /\ UNCHANGED <<events, admins, users, nextArchive, pending, clock, nextId, nextSession,
                   call, everLive, everClosed, flow>>

createTokenHostCeleb_getAdmin ==
    /\ pc = "createTokenHostCeleb_getAdmin"
    /\ IF getAdmin(prop(local.event, "adminId")) = None
       THEN Throw("TypeError")
       ELSE /\ pc' = "createTokenHostCeleb_stageToken"
            /\ local' = merge(local, [admin |-> getAdmin(local.event.adminId)])
            /\ UNCHANGED ret
    /\ UNCHANGED <<events, admins, users, nextArchive, pending, clock, nextId, nextSession,
                   call, everLive, everClosed, flow>>

createTokenHostCeleb_stageToken(ok) ==
    /\ pc = "createTokenHostCeleb_stageToken"
    /\ IF ok /\ canIssue(local.event, "stageSessionId")
       THEN /\ pc' = "done"
            /\ ret' = [apiKey |-> local.admin.otApiKey, event |-> local.event,
                       stageToken |-> createToken(local.event.stageSessionId, "publisher",
                                                  call.userType),
                       httpSupport |-> local.admin.httpSupport]
            /\ UNCHANGED local
       ELSE Throw("createToken")
    /\ UNCHANGED <<events, admins, users, nextArchive, pending, clock, nextId, nextSession,
                   call, everLive, everClosed, flow>>

\* the slug createTokenByUserType passes on
slugByUserType(event, userType) ==
    IF userType = "celebrity" THEN prop(event, "celebrityUrl") ELSE prop(event, "hostUrl")

createTokenByUserType(adminId, userType) ==
    /\ pc = "idle"
    /\ pc' = "createTokenByUserType_getMostRecentEvent"
    /\ call' = [op |-> "createTokenByUserType", adminId |-> adminId, userType |-> userType]
    /\ UNCHANGED <<events, admins, users, nextArchive, pending, clock, nextId, nextSession,
                   local, ret, everLive, everClosed, flow>>

createTokenByUserType_getMostRecentEvent ==
    /\ pc = "createTokenByUserType_getMostRecentEvent"
    /\ IF mostRecentEvent(events, call.adminId) = None
       THEN /\ pc' = "done"
            /\ ret' = None
            /\ UNCHANGED local
       ELSE /\ pc' = "createTokenHostCeleb_getEventByKey"
            /\ local' = [slug |-> slugByUserType(mostRecentEvent(events, call.adminId),
                                                 call.userType),
                         selected |-> mostRecentEvent(events, call.adminId)]
            /\ UNCHANGED ret
    /\ UNCHANGED <<events, admins, users, nextArchive, pending, clock, nextId, nextSession,
                   call, everLive, everClosed, flow>>

(* ------------------------------ archives ------------------------------- *)
stopArchiveClears(id) == <<updateWrite(id, [archiveId |-> 0], FALSE, "stopArchive")>>
\* the store writes stopArchive issues: none, the stored archiveId is kept
stopArchiveWrites(id) == <<>>

stopArchive(id) ==
    /\ pc = "idle"
    /\ pc' = "stopArchive_getEvent"
    /\ call' = [op |-> "stopArchive", id |-> id]
    /\ UNCHANGED <<events, admins, users, nextArchive, pending, clock, nextId, nextSession,
                   local, ret, everLive, everClosed, flow>>

stopArchive_getEvent ==
    /\ pc = "stopArchive_getEvent"
    /\ IF childVal(events, call.id) = None
       THEN Throw("TypeError")
       ELSE /\ pc' = "stopArchive_getAdmin"
            /\ local' = [event |-> childVal(events, call.id)]
            /\ UNCHANGED ret
    /\ UNCHANGED <<events, admins, users, nextArchive, pending, clock, nextId, nextSession,
                   call, everLive, everClosed, flow>>

\* OpenTok.stopArchive is called with the archiveId that was read, not awaited
stopArchive_getAdmin ==
    /\ pc = "stopArchive_getAdmin"
    /\ IF getAdmin(prop(local.event, "adminId")) = None
       THEN /\ Throw("TypeError")
            /\ UNCHANGED pending
       ELSE /\ pc' = "done"
            /\ ret' = [ok |-> TRUE]
            /\ local' = [event |-> local.event, stopped |-> pick({"archiveId"}, local.event)]
            /\ pending' = pending \o stopArchiveWrites(call.id)
    /\ UNCHANGED <<events, admins, users, nextArchive, clock, nextId, nextSession,
                   call, everLive, everClosed, flow>>

\* stored events as the token operations find them: with or without an archive
TokenEvents(id) ==
    {StoredBy(id, merge(merge(EventData(a, s), [status |-> st]), arch),
              [sessionId |-> 2 * id - 1, stageSessionId |-> 2 * id], MaxClock - id + 1) :
        a \in AdminIds, s \in Slugs, st \in {NOT_STARTED, PRESHOW, LIVE},
        arch \in {EmptyObject, [archiveId |-> id]}}

InitToken ==
    /\ \E n \in 0..MaxEvents :
          /\ events \in [1..n -> UNION {TokenEvents(i) : i \in 1..n}]
          /\ \A i \in 1..n : events[i].id = i
          /\ nextId = n + 1
          /\ nextSession = 2 * n + 1
    /\ admins = RegisteredAdmins
    /\ users = RegisteredAdmins
    /\ nextArchive = MaxEvents + 1
    /\ pending = <<>>
    /\ clock = MaxClock
    /\ pc = "idle"
    /\ call = NoCall
    /\ local = EmptyObject
    /\ ret = None
    /\ everLive = {i \in DOMAIN events : events[i].status = LIVE}
    /\ everClosed = {}
    /\ flow = [i \in 1..(MaxEvents + MaxTracked) |-> "other"]

NextToken ==
    \/ \E id \in 1..nextId : createTokenProducer(id)
    \/ createTokenProducer_getEvent
    \/ createTokenProducer_getAdmin
    \/ \E ok \in BOOLEAN : createTokenProducer_backstageToken(ok)
    \/ \E ok \in BOOLEAN : createTokenProducer_stageToken(ok)
    \/ \E a \in AdminIds, s \in Slugs : createTokenFan(a, s)
    \/ createTokenFan_getEventByKey
    \/ createTokenFan_getAdmin
    \/ \E ok \in BOOLEAN : createTokensFan_backstageToken(ok)
    \/ \E ok \in BOOLEAN : createTokensFan_stageToken(ok)
    \/ \E a \in AdminIds, s \in Slugs, u \in UserTypes :
          createTokenHostCeleb(a, slugOf(s, hostCelebField(u)), u)
    \/ createTokenHostCeleb_getEventByKey
    \/ createTokenHostCeleb_getAdmin
    \/ \E ok \in BOOLEAN : createTokenHostCeleb_stageToken(ok)
    \/ \E a \in AdminIds, u \in UserTypes : createTokenByUserType(a, u)
    \/ createTokenByUserType_getMostRecentEvent
    \/ \E id \in 1..nextId : stopArchive(id)
    \/ stopArchive_getEvent
    \/ stopArchive_getAdmin
    \/ Return

SpecToken == InitToken /\ [][NextToken]_vars

\* C12: createTokenFan for a slug no event of the admin has ends in a
\* not-found outcome: neither a success nor a raw field-access fault, with no
\* admin lookup and no createToken call made.
C12_FanNotFound ==
    (/\ call.op = "createTokenFan"
     /\ pc \in {"done", "failed"}
     /\ eventByKey(events, call.adminId, call.slug, "fanUrl") = None)
    => /\ pc = "failed"
       /\ ret = Failed("NotFound")
       /\ local.tokenCalls = 0
       /\ local.adminLookups = 0

\* C13: when the event and the admin exist and both gateway calls succeed,
\* the result of createTokenFan carries the publisher token issued for the
\* event's sessionId as backstageToken and the one issued for its
\* stageSessionId as stageToken, both issued before the result is produced.
C13_FanTokens ==
    (/\ call.op = "createTokenFan"
     /\ pc = "done"
     /\ local.createTokensFan # "rejected")
    => /\ ret.backstageToken = createToken(ret.event.sessionId, "publisher", "fan")
       /\ ret.stageToken = createToken(ret.event.stageSessionId, "publisher", "fan")
       /\ local.createTokensFan = "resolved"

TokenOps ==
    {"createTokenProducer", "createTokenFan", "createTokenHostCeleb", "createTokenByUserType",
     "stopArchive"}

\* C15: no step of createTokenProducer, createTokenFan, createTokenHostCeleb,
\* createTokenByUserType or stopArchive changes an event record or issues a
\* write to the event store, whether the operation succeeds or fails.
C15_TokensReadOnly ==
    [][(call.op \in TokenOps \/ call'.op \in TokenOps)
       => (events' = events /\ pending' = pending)]_vars

C15_Witness ==
    /\ pc = "done"
    /\ call.op = "stopArchive"
    /\ Has(events[call.id], "archiveId")
    /\ local.stopped = [archiveId |-> events[call.id].archiveId]
    /\ pending = <<>>

\* C17: createTokenByUserType returns none when the admin has no LIVE or
\* PRESHOW event; otherwise the slug it passes on is the selected event's
\* value of the field createTokenHostCeleb looks up by, the event of its result
\* is the selected one and the token is issued for its stageSessionId.
C17_ByUserType ==
    call.op = "createTokenByUserType" =>
       /\ (pc \in {"done", "failed"} /\ mostRecentEvent(events, call.adminId) = None)
             => (pc = "done" /\ ret = None)
       /\ pc = "createTokenHostCeleb_getEventByKey"
             => local.slug = prop(local.selected, hostCelebField(call.userType))
       /\ (pc = "done" /\ mostRecentEvent(events, call.adminId) # None)
             => /\ ret.event = mostRecentEvent(events, call.adminId)
                /\ ret.stageToken.sessionId = mostRecentEvent(events, call.adminId).stageSessionId

(* ---------------------------- startArchive ----------------------------- *)
startArchive(id) ==
    /\ pc = "idle"
    /\ nextArchive <= MaxArchives
    /\ pc' = "startArchive_getEvent"
    /\ call' = [op |-> "startArchive", id |-> id]
    /\ UNCHANGED <<events, admins, users, nextArchive, pending, clock, nextId, nextSession,
                   local, ret, everLive, everClosed, flow>>

startArchive_getEvent ==
    /\ pc = "startArchive_getEvent"
    /\ IF childVal(events, call.id) = None
       THEN Throw("TypeError")
       ELSE /\ pc' = "startArchive_getAdmin"
            /\ local' = [event |-> childVal(events, call.id)]
            /\ UNCHANGED ret
    /\ UNCHANGED <<events, admins, users, nextArchive, pending, clock, nextId, nextSession,
                   call, everLive, everClosed, flow>>

startArchive_getAdmin ==
    /\ pc = "startArchive_getAdmin"
    /\ IF getAdmin(prop(local.event, "adminId")) = None
       THEN Throw("TypeError")
       ELSE /\ pc' = "startArchive_startArchive"
            /\ local' = [event |-> local.event, admin |-> getAdmin(local.event.adminId)]
            /\ UNCHANGED ret
    /\ UNCHANGED <<events, admins, users, nextArchive, pending, clock, nextId, nextSession,
                   call, everLive, everClosed, flow>>

\* the write startArchive sends through update, which it does not await
archiveWrite(id, archiveId) == updateWrite(id, [archiveId |-> archiveId], FALSE, "startArchive")

\* OpenTok.startArchive answers; update is called and the id returned
startArchive_startArchive(ok) ==
    /\ pc = "startArchive_startArchive"
    /\ IF ok /\ canIssue(local.event, "stageSessionId")
       THEN /\ Issue(archiveWrite(call.id, nextArchive))
            /\ nextArchive' = nextArchive + 1
            /\ pc' = "done"
            /\ ret' = [archiveId |-> nextArchive]
            /\ UNCHANGED local
       ELSE /\ Throw("startArchive")
            /\ UNCHANGED <<pending, nextArchive>>
    /\ UNCHANGED <<events, admins, users, clock, nextId, nextSession,
                   call, everLive, everClosed, flow>>

NextArchive ==
    \/ \E id \in 1..nextId : startArchive(id)
    \/ startArchive_getEvent
    \/ startArchive_getAdmin
    \/ \E ok \in BOOLEAN : startArchive_startArchive(ok)
    \/ \E id \in 1..nextId : stopArchive(id)
    \/ stopArchive_getEvent
    \/ stopArchive_getAdmin
    \/ Return
    \/ \E i \in 1..Len(pending) : ApplyWrite(i)
    \/ Tick

SpecArchive == InitStatus /\ [][NextArchive]_vars

\* C14: when startArchive(id) has returned archive id A, the stored archiveId
\* of the event is A, and a stopArchive(id) that runs after it asks the
\* gateway to stop A, however the store's writes are interleaved.
C14_ArchiveStored ==
    /\ (pc = "done" /\ call.op = "startArchive")
          => pick({"archiveId"}, events[call.id]) = ret
    /\ (pc = "done" /\ call.op = "stopArchive" /\ call.id = 1 /\ nextArchive > 1)
          => local.stopped = [archiveId |-> nextArchive - 1]

defaultOf(k) == IF k = "status" THEN NOT_STARTED ELSE "false"

\* C16: the record saveEvent has stored always has status, archiveEvent and
\* composed, each the caller's value when the data supplies one and otherwise
\* NOT_STARTED, false and false, also when the data omits the key.
C16_SaveDefaults ==
    (pc = "saveEvent_getEvent" /\ local.id \in DOMAIN events) =>
        \A k \in {"status", "archiveEvent", "composed"} :
            /\ Has(events[local.id], k)
            /\ events[local.id][k] =
                  IF Has(createData(call.data, local.sessions), k)
                  THEN defaultTo(defaultOf(k), createData(call.data, local.sessions)[k])
                  ELSE defaultOf(k)

(* --------------------------- admin accounts ---------------------------- *)
adminProps ==
    {"displayName", "otApiKey", "otSecret", "superAdmin", "httpSupport", "id", "email", "hls"}
userProps == {"displayName", "email", "password"}
buildUser(props, userData) == pick(props, userData)

\* validation.fails() under the rules 'required' for every user property
fails(data) == \E k \in userProps : ~Has(data, k)

UserData ==
    {[displayName |-> "n", email |-> "e", password |-> "p", otApiKey |-> "k"],
     [displayName |-> "n", otApiKey |-> "k"]}

setAdminWrite(uid) ==
    [kind |-> "setAdmin", id |-> 0, uid |-> uid, awaited |-> FALSE, by |-> "createAdmin"]
removeAdminWrite(uid) ==
    [kind |-> "removeAdmin", id |-> 0, uid |-> uid, awaited |-> FALSE, by |-> "deleteAdmin"]

applyAdminWrite(adms, w) ==
    IF w.kind = "setAdmin" THEN adms \cup {w.uid} ELSE adms \ {w.uid}

ApplyAdminWrite(i) ==
    /\ i \in 1..Len(pending)
    /\ pending[i].kind \in {"setAdmin", "removeAdmin"}
    /\ admins' = applyAdminWrite(admins, pending[i])
    /\ pending' = removeAt(pending, i)
    /\ UNCHANGED <<events, users, nextArchive, clock, nextId, nextSession, pc, call, local, ret,
                   everLive, everClosed, flow>>

\* the validation verdict settles the promise but does not end the executor:
\* the identity provider is asked to create the user in either case
createUser(data) ==
    /\ pc = "idle"
    /\ pc' = "createUser_createUser"
    /\ call' = [op |-> "createUser", data |-> data]
    /\ local' = [settled |-> fails(data), providerCalls |-> 1, usersBefore |-> users,
                 user |-> buildUser(userProps, data)]
    /\ ret' = IF fails(data) THEN Failed("validation") ELSE None
    /\ UNCHANGED <<events, admins, users, nextArchive, pending, clock, nextId, nextSession,
                   everLive, everClosed, flow>>

\* the identity provider answers: with a new uid createAdmin sets the admin
\* record and hands its data on at once; a promise settles only once
createUser_createUser(ok, uid) ==
    /\ pc = "createUser_createUser"
    /\ IF ok
       THEN /\ uid \in AdminIds \ users
            /\ users' = users \cup {uid}
            /\ Issue(setAdminWrite(uid))
            /\ pc' = IF local.settled THEN "failed" ELSE "done"
            /\ ret' = IF local.settled THEN ret ELSE merge([id |-> uid], call.data)
       ELSE /\ pc' = "failed"
            /\ ret' = IF local.settled THEN ret ELSE Failed("auth")
            /\ UNCHANGED <<users, pending>>
    /\ UNCHANGED <<events, admins, nextArchive, clock, nextId, nextSession, call, local,
                   everLive, everClosed, flow>>

\* deleteAdmin(uid) and resolve(true) are arguments of then: both are
\* evaluated when the chain is built, while the provider has yet to answer
deleteUser(uid) ==
    /\ pc = "idle"
    /\ Issue(removeAdminWrite(uid))
    /\ pc' = "done"
    /\ call' = [op |-> "deleteUser", uid |-> uid]
    /\ local' = [provider |-> "pending", before |-> (uid \in admins)]
    /\ ret' = [ok |-> TRUE]
    /\ UNCHANGED <<events, admins, users, nextArchive, clock, nextId, nextSession,
                   everLive, everClosed, flow>>

\* admin.auth().deleteUser answers; a rejection reaches a settled promise
deleteUser_deleteUser(ok) ==
    /\ pc = "done" /\ call.op = "deleteUser"
    /\ local.provider = "pending"
    /\ users' = IF ok THEN users \ {call.uid} ELSE users
    /\ local' = [local EXCEPT !.provider = IF ok /\ call.uid \in users THEN "deleted" ELSE "failed"]
    /\ UNCHANGED <<events, admins, nextArchive, pending, clock, nextId, nextSession, pc, call, ret,
                   everLive, everClosed, flow>>

NextAdmin ==
    \/ \E data \in UserData : createUser(data)
    \/ \E ok \in BOOLEAN, uid \in AdminIds : createUser_createUser(ok, uid)
    \/ \E uid \in AdminIds : deleteUser(uid)
    \/ \E ok \in BOOLEAN : deleteUser_deleteUser(ok)
    \/ \E i \in 1..Len(pending) : ApplyAdminWrite(i)
    \/ Return

SpecAdmin == Init /\ [][NextAdmin]_vars

\* C18: createUser with data that fails validation returns the field errors
\* and attempts no persistence: the identity provider is not asked to create
\* a user, so that no user and no admin record comes to exist.
C18_InvalidNoPersistence ==
    (call.op = "createUser" /\ fails(call.data)) =>
        /\ ret = Failed("validation")
        /\ local.providerCalls = 0
        /\ users = local.usersBefore

\* C20: deleteUser removes the admin record only after the identity provider
\* has deleted the user and reports success only after both; when the provider
\* fails, the admin record is still there and the call fails.
C20_DeleteOrder ==
    call.op = "deleteUser" =>
        /\ (\E i \in 1..Len(pending) : pending[i] = removeAdminWrite(call.uid))
              => local.provider = "deleted"
        /\ pc = "done" => (local.provider = "deleted" /\ call.uid \notin admins)
        /\ local.provider = "failed"
              => (pc = "failed" /\ (local.before => call.uid \in admins))

(* ------------------------ deleteEventsByAdminId ------------------------ *)
deleteKeysAll(evs, id) == DOMAIN evs
\* the keys of the snapshot of orderByChild('adminId').equalTo(id)
deleteKeys(evs, id) == queryKeys(evs, "adminId", id)

\* ref.update(updates), every key of the snapshot set to null
removeEvents(ids) ==
    [kind |-> "updates", id |-> 0, ids |-> ids, awaited |-> FALSE,
     by |-> "deleteEventsByAdminId", data |-> EmptyObject]

deleteEventsByAdminId(id) ==
    /\ pc = "idle"
    /\ pc' = "deleteEventsByAdminId_query"
    /\ call' = [op |-> "deleteEventsByAdminId", id |-> id]
    /\ UNCHANGED <<events, admins, users, nextArchive, pending, clock, nextId, nextSession,
                   local, ret, everLive, everClosed, flow>>

\* the query is served, the update is sent and not awaited, true is returned
deleteEventsByAdminId_query ==
    /\ pc = "deleteEventsByAdminId_query"
    /\ Issue(removeEvents(deleteKeys(events, call.id)))
    /\ pc' = "done"
    /\ ret' = [ok |-> TRUE]
    /\ UNCHANGED <<events, admins, users, nextArchive, clock, nextId, nextSession,
                   call, local, everLive, everClosed, flow>>

\* stores as InitToken draws them, with or without the archiveId write of a
\* startArchive of event 1 still in flight
InitDelete ==
    /\ \E n \in 0..MaxEvents :
          /\ events \in [1..n -> UNION {TokenEvents(i) : i \in 1..n}]
          /\ \A i \in 1..n : events[i].id = i
          /\ nextId = n + 1
          /\ nextSession = 2 * n + 1
          /\ \/ pending = <<>>
             \/ /\ n >= 1
                /\ events[1].adminId \in RegisteredAdmins
                /\ pending = <<archiveWrite(1, MaxEvents + 1)>>
    /\ admins = RegisteredAdmins
    /\ users = RegisteredAdmins
    /\ nextArchive = MaxEvents + 2
    /\ clock = MaxClock
    /\ pc = "idle"
    /\ call = NoCall
    /\ local = EmptyObject
    /\ ret = None
    /\ everLive = {i \in DOMAIN events : events[i].status = LIVE}
    /\ everClosed = {}
    /\ flow = [i \in 1..(MaxEvents + MaxTracked) |-> "other"]

NextDelete ==
    \/ \E id \in AdminIds : deleteEventsByAdminId(id)
    \/ deleteEventsByAdminId_query
    \/ \E i \in 1..Len(pending) : ApplyWrite(i)
    \/ Return

SpecDelete == InitDelete /\ [][NextDelete]_vars

ownedBy(adminId) ==
    {i \in DOMAIN events : Has(events[i], "adminId") /\ events[i].adminId = adminId}

\* C19: deleteEventsByAdminId(adminId) reports success whether or not an
\* event matched, and its delete request names exactly the events adminId owns
\* when the query is served; when the request is applied those events are gone
\* from the store, so that no query by adminId holds them, and every other
\* record is as it was.
C19_DeleteByAdmin ==
    [][/\ (pc = "deleteEventsByAdminId_query" /\ pc' = "done")
             => /\ ret' = [ok |-> TRUE]
                /\ Len(pending') = Len(pending) + 1
                /\ pending'[Len(pending')].ids = ownedBy(call.id)
                /\ events' = events
       /\ \A i \in 1..Len(pending) :
             (pending[i].kind = "updates" /\ pending' = removeAt(pending, i))
             => /\ DOMAIN events' = (DOMAIN events) \ pending[i].ids
                /\ \A j \in DOMAIN events' : events'[j] = events[j]
                /\ \A a \in AdminIds :
                      queryKeys(events', "adminId", a) \cap pending[i].ids = {}]_vars

C19_Witness ==
    /\ pc = "done"
    /\ call.op = "deleteEventsByAdminId"
    /\ pending = <<>>
    /\ nextId = 3
    /\ Cardinality(DOMAIN events) = 1
    /\ \A i \in DOMAIN events : Has(events[i], "adminId") /\ events[i].adminId # call.id

====
